---- MODULE Spec2Model ----
(***************************************************************************)
(* Air Quality IoT Server (src/main.py): the /api/data write path with its *)
(* per-device retention pass, and the /latest read path, over the          *)
(* air_quality table reached through SQLAlchemy sessions.                  *)
(*                                                                         *)
(* Modelling notes.                                                        *)
(*  - Floats are modelled by integers; every threshold of main.py is a     *)
(*    whole number, and the sampled readings sit at, just below and just   *)
(*    above each of them.                                                  *)
(*  - datetime.utcnow() is an ideal wall clock: every read returns a value *)
(*    strictly greater than all earlier reads (variable clock).            *)
(*  - A handler is `async def` without any await, so inside one server     *)
(*    process a handler runs to completion before the next one starts.     *)
(*    Spec is that deployment (one worker).  SpecMulti runs several        *)
(*    worker processes against the same database; each SQL statement and   *)
(*    each commit is one step and sees the committed table of that moment  *)
(*    (READ COMMITTED, the default of the postgresql:// target).           *)
(*  - MAX_RECORDS_PER_DEVICE is 1000 in main.py:20; the model scales the   *)
(*    cap down so that the table can go over it.                           *)
(***************************************************************************)
EXTENDS Integers, Sequences, FiniteSets, TLC

\* ---------------------------------------------------------------- bounds
MaxRequests == 4
MAX_RECORDS_PER_DEVICE == 2

\* ------------------------------------------------------------ thresholds
CO_THRESHOLD == 50
BUTANE_THRESHOLD == 10
TEMP_MIN == 15
TEMP_MAX == 30
HUMIDITY_MIN == 20
HUMIDITY_MAX == 70

Workers == {"w1", "w2"}
MainWorker == "w1"
Devices == {"A", "B"}

\* Request bodies (class ESP32Data).  ESP32Data is the small set the server
\* runs drive; ESP32Grid sweeps every field across its marks.
MkData(d, t, h, co, h2, bu) ==
    [device_id |-> d, temperature |-> t, humidity |-> h,
     co_ppm |-> co, h2_ppm |-> h2, butane_ppm |-> bu]

ESP32Data ==
    { MkData(d, 15, 70, 50, 0, 10) : d \in Devices } \cup
    { MkData(d, 31, 40, 51, 0, 10) : d \in Devices }

ESP32Few == { MkData(d, 15, 70, 50, 0, 10) : d \in Devices }

ESP32Grid ==
    { MkData(d, t, h, co, 0, bu) :
        d \in {"A"},
        t \in {TEMP_MIN - 1, TEMP_MIN, TEMP_MAX, TEMP_MAX + 1},
        h \in {HUMIDITY_MIN - 1, HUMIDITY_MIN, HUMIDITY_MAX, HUMIDITY_MAX + 1},
        co \in {CO_THRESHOLD - 1, CO_THRESHOLD, CO_THRESHOLD + 1},
        bu \in {BUTANE_THRESHOLD - 1, BUTANE_THRESHOLD, BUTANE_THRESHOLD + 1} }

VARIABLES
    db,        \* committed rows of table air_quality
    nextId,    \* the autoincrement primary key
    clock,     \* the wall clock read by datetime.utcnow()
    ctx,       \* per worker: the handler's position and locals
    resp,      \* the body of the last /latest response
    history,   \* ghost: the records whose insert committed, in commit order
    accepted,  \* ghost: the records whose call returned {"status": "ok"}
    evicted,   \* ghost: rows removed by a retention pass, with the pass's device
    retention  \* ghost: per device, the state of its last retention pass

vars == <<db, nextId, clock, ctx, resp, history, accepted, evicted, retention>>

NoRecord == [device_id |-> "none"]
NoResponse == [message |-> "none"]
NoDataYet == [message |-> "No data yet"]

\* ctx fields before, snap and view are ghosts: the device's rows before the
\* insert, the table right after it, and the device's rows the count saw.
IdleCtx == [pc |-> "idle", record |-> NoRecord, count |-> 0,
            to_delete |-> {}, before |-> {}, snap |-> {}, view |-> {}]

\* ---------------------------------------------------------------- helpers
compute_alerts_ge(data) ==
    LET co_alert == data.co_ppm >= CO_THRESHOLD
        butane_alert == data.butane_ppm >= BUTANE_THRESHOLD
        temperature_alert == ~(TEMP_MIN < data.temperature /\ data.temperature < TEMP_MAX)
        humidity_alert == ~(HUMIDITY_MIN < data.humidity /\ data.humidity < HUMIDITY_MAX)
        alert == co_alert \/ butane_alert \/ temperature_alert \/ humidity_alert
    IN <<alert, co_alert, butane_alert, temperature_alert, humidity_alert>>

compute_alerts(data) ==
    LET co_alert == data.co_ppm > CO_THRESHOLD
        butane_alert == data.butane_ppm > BUTANE_THRESHOLD
        temperature_alert == ~(TEMP_MIN <= data.temperature /\ data.temperature <= TEMP_MAX)
        humidity_alert == ~(HUMIDITY_MIN <= data.humidity /\ data.humidity <= HUMIDITY_MAX)
        alert == co_alert \/ butane_alert \/ temperature_alert \/ humidity_alert
    IN <<alert, co_alert, butane_alert, temperature_alert, humidity_alert>>

\* AirQuality(...) of receive_data: the row before it has an id.
AirQuality(now, data) ==
    LET a == compute_alerts(data)
    IN [timestamp |-> now,
        device_id |-> data.device_id,
        temperature |-> data.temperature,
        humidity |-> data.humidity,
        co_ppm |-> data.co_ppm,
        h2_ppm |-> data.h2_ppm,
        butane_ppm |-> data.butane_ppm,
        alert |-> a[1],
        co_alert |-> a[2],
        butane_alert |-> a[3],
        temperature_alert |-> a[4],
        humidity_alert |-> a[5]]

WithId(record, id) == [id |-> id] @@ record
Fields(row) == [f \in (DOMAIN row) \ {"id"} |-> row[f]]

\* db.add(record); db.commit()
InsertTwice(table, record, id) == table \cup {WithId(record, id), WithId(record, id + 1)}
Insert(table, record, id) == table \cup {WithId(record, id)}

\* .filter(AirQuality.device_id == device_id)
FilterAnyDevice(table, device_id) == table
FilterDevice(table, device_id) == {r \in table : r.device_id = device_id}

\* ....count()
CountRows(table, device_id) == Cardinality(FilterDevice(table, device_id))

Min(a, b) == IF a < b THEN a ELSE b

\* The result sets .order_by(timestamp.asc()).limit(n).all() can have.
OrderDescLimit(rows, n) ==
    {S \in SUBSET rows :
        /\ Cardinality(S) = Min(n, Cardinality(rows))
        /\ \A s \in S : \A r \in rows \ S : s.timestamp >= r.timestamp}
LimitOneLess(rows, n) ==
    {S \in SUBSET rows :
        /\ Cardinality(S) = Min(n - 1, Cardinality(rows))
        /\ \A s \in S : \A r \in rows \ S : s.timestamp <= r.timestamp}
LimitOneMore(rows, n) ==
    {S \in SUBSET rows :
        /\ Cardinality(S) = Min(n + 1, Cardinality(rows))
        /\ \A s \in S : \A r \in rows \ S : s.timestamp <= r.timestamp}
OrderAscLimit(rows, n) ==
    {S \in SUBSET rows :
        /\ Cardinality(S) = Min(n, Cardinality(rows))
        /\ \A s \in S : \A r \in rows \ S : s.timestamp <= r.timestamp}

\* The body of a /latest response for a row.
LatestBody(row) ==
    [timestamp |-> row.timestamp, device_id |-> row.device_id,
     temperature |-> row.temperature, humidity |-> row.humidity,
     co_ppm |-> row.co_ppm, h2_ppm |-> row.h2_ppm,
     butane_ppm |-> row.butane_ppm, alert |-> row.alert]

\* The responses latest() can give on a table.
latest_oldest(table) ==
    IF table = {} THEN {NoDataYet}
    ELSE {LatestBody(r) : r \in {x \in table : \A y \in table : y.timestamp >= x.timestamp}}
latest_needs_two(table) ==
    IF Cardinality(table) < 2 THEN {NoDataYet}
    ELSE {LatestBody(r) : r \in {x \in table : \A y \in table : y.timestamp <= x.timestamp}}
latest(table) ==
    IF table = {} THEN {NoDataYet}
    ELSE {LatestBody(r) : r \in {x \in table : \A y \in table : y.timestamp <= x.timestamp}}

Resting == {"idle", "ok", "failed"}

\* ---------------------------------------------------------------- actions
\* receive_data, lines 95-112: the session, the alerts, the record with
\* its timestamp read from the clock.
Build(w, data) ==
    /\ ctx[w].pc \in Resting
    /\ clock <= MaxRequests
    /\ ctx' = [ctx EXCEPT ![w] = [IdleCtx EXCEPT !.pc = "built",
                                               !.record = AirQuality(clock, data)]]
    /\ clock' = clock + 1
    /\ UNCHANGED <<db, nextId, resp, history, accepted, evicted, retention>>

Receive(w) == \E data \in ESP32Data : Build(w, data)

\* receive_data, lines 114-115: db.add(record); db.commit().
InsertCommit(w) ==
    /\ ctx[w].pc = "built"
    /\ db' = Insert(db, ctx[w].record, nextId)
    /\ nextId' = nextId + 1
    /\ ctx' = [ctx EXCEPT ![w].pc = "inserted",
                          ![w].before = {r \in db : r.device_id = ctx[w].record.device_id},
                          ![w].snap = db \cup {WithId(ctx[w].record, nextId)}]
    /\ history' = Append(history, ctx[w].record)
    /\ retention' = [retention EXCEPT ![ctx[w].record.device_id] = "open"]
    /\ UNCHANGED <<clock, resp, accepted, evicted>>

\* cleanup_old_records, lines 76-80, count within the cap: nothing to do;
\* receive_data closes the session and returns ok.
CountNoExcess(w) ==
    /\ ctx[w].pc = "inserted"
    /\ LET c == CountRows(db, ctx[w].record.device_id)
       IN /\ ~(c > MAX_RECORDS_PER_DEVICE)
          /\ ctx' = [ctx EXCEPT ![w].pc = "ok", ![w].count = c]
    /\ accepted' = accepted \cup {ctx[w].record}
    /\ retention' = [retention EXCEPT ![ctx[w].record.device_id] = "done"]
    /\ UNCHANGED <<db, nextId, clock, resp, history, evicted>>

\* cleanup_old_records, lines 76-80, count over the cap.
CountExcess(w) ==
    /\ ctx[w].pc = "inserted"
    /\ LET c == CountRows(db, ctx[w].record.device_id)
       IN /\ c > MAX_RECORDS_PER_DEVICE
          /\ ctx' = [ctx EXCEPT ![w].pc = "counted", ![w].count = c,
                                ![w].view = {r \in db : r.device_id = ctx[w].record.device_id}]
    /\ UNCHANGED <<db, nextId, clock, resp, history, accepted, evicted, retention>>

\* cleanup_old_records, lines 81-87: the oldest (count - cap) rows of the device.
SelectOldest(w) ==
    /\ ctx[w].pc = "counted"
    /\ \E S \in OrderAscLimit(FilterDevice(db, ctx[w].record.device_id),
                              ctx[w].count - MAX_RECORDS_PER_DEVICE) :
          ctx' = [ctx EXCEPT ![w].pc = "selected", ![w].to_delete = S]
    /\ UNCHANGED <<db, nextId, clock, resp, history, accepted, evicted, retention>>

\* cleanup_old_records, lines 88-90: the deletes are flushed and committed as
\* one transaction (a row another pass removed meanwhile matches nothing);
\* receive_data closes the session and returns ok.
DeleteCommit(w) ==
    /\ ctx[w].pc = "selected"
    /\ db' = db \ ctx[w].to_delete
    /\ evicted' = evicted \cup
          {[row |-> r, by |-> ctx[w].record.device_id] : r \in ctx[w].to_delete \cap db}
    /\ ctx' = [ctx EXCEPT ![w].pc = "ok"]
    /\ accepted' = accepted \cup {ctx[w].record}
    /\ retention' = [retention EXCEPT ![ctx[w].record.device_id] = "done"]
    /\ UNCHANGED <<nextId, clock, resp, history>>

\* A statement or the commit of cleanup_old_records raises: the exception
\* leaves receive_data (no handler), the pending deletes are never committed,
\* and the insert committed at line 115 stays.
CleanupFailsRollsBackInsert(w) ==
    /\ ctx[w].pc \in {"inserted", "counted", "selected"}
    /\ db' = {r \in db : Fields(r) # ctx[w].record}
    /\ ctx' = [ctx EXCEPT ![w].pc = "failed"]
    /\ retention' = [retention EXCEPT ![ctx[w].record.device_id] = "failed"]
    /\ UNCHANGED <<nextId, clock, resp, history, accepted, evicted>>
CleanupFails(w) ==
    /\ ctx[w].pc \in {"inserted", "counted", "selected"}
    /\ ctx' = [ctx EXCEPT ![w].pc = "failed"]
    /\ retention' = [retention EXCEPT ![ctx[w].record.device_id] = "failed"]
    /\ UNCHANGED <<db, nextId, clock, resp, history, accepted, evicted>>

\* latest(), lines 124-142.
Latest(w) ==
    /\ ctx[w].pc \in Resting
    /\ resp' \in latest(db)
    /\ UNCHANGED <<db, nextId, clock, ctx, history, accepted, evicted, retention>>

Init ==
    /\ db = {}
    /\ nextId = 1
    /\ clock = 1
    /\ ctx = [w \in Workers |-> IdleCtx]
    /\ resp = NoResponse
    /\ history = <<>>
    /\ accepted = {}
    /\ evicted = {}
    /\ retention = [d \in Devices |-> "none"]

Handler(w) ==
    \/ Receive(w)
    \/ InsertCommit(w)
    \/ CountNoExcess(w)
    \/ CountExcess(w)
    \/ SelectOldest(w)
    \/ DeleteCommit(w)
    \/ CleanupFails(w)
    \/ Latest(w)

\* One server process: one handler at a time.
Next == Handler(MainWorker)
Spec == Init /\ [][Next]_vars

\* Several server processes on one database.
ReceiveFew(w) == \E data \in ESP32Few : Build(w, data)
HandlerMulti(w) ==
    \/ ReceiveFew(w)
    \/ InsertCommit(w)
    \/ CountNoExcess(w)
    \/ CountExcess(w)
    \/ SelectOldest(w)
    \/ DeleteCommit(w)
    \/ CleanupFails(w)
    \/ Latest(w)
NextMulti == \E w \in Workers : HandlerMulti(w)
SpecMulti == Init /\ [][NextMulti]_vars

\* One request drawn from the grid of readings, on an empty table.
ReceiveGrid(w) == clock = 1 /\ \E data \in ESP32Grid : Build(w, data)
NextGrid == ReceiveGrid(MainWorker) \/ InsertCommit(MainWorker) \/ CountNoExcess(MainWorker)
SpecGrid == Init /\ [][NextGrid]_vars

\* ------------------------------------------------------------ properties
RowsOf(table, d) == {r \in table : r.device_id = d}
Persisted(record) == {r \in db : Fields(r) = record}
Removed(record) == {e \in evicted : Fields(e.row) = record}
InPass == {"inserted", "counted", "selected"}

C3_ExactlyOnce ==
    /\ \A a \in accepted :
          Cardinality(Persisted(a)) + Cardinality(Removed(a)) = 1
    /\ \A e \in evicted : e.by = e.row.device_id
    /\ Cardinality(db) + Cardinality(evicted) = Len(history)
    /\ \A r \in db : \E i \in 1..Len(history) : history[i] = Fields(r)

C3_Witness ==
    /\ \E a \in accepted : Persisted(a) # {}
    /\ \E a \in accepted : Removed(a) # {} /\ Persisted(a) = {}

C6_AtomicEviction ==
    /\ \A w \in Workers :
          ctx[w].pc = "selected" =>
             /\ ctx[w].to_delete \subseteq ctx[w].view
             /\ Cardinality(ctx[w].to_delete) = ctx[w].count - MAX_RECORDS_PER_DEVICE
    /\ \A e \in evicted :
          Cardinality(RowsOf(db, e.by)) >= MAX_RECORDS_PER_DEVICE

\* C7: a failed retention pass leaves the record its call inserted in the
\* store and removes no row.
C7_FailedPassKeepsAppend ==
    \A w \in Workers :
       ctx[w].pc = "failed" =>
          /\ Persisted(ctx[w].record) # {}
          /\ db = ctx[w].snap

C7_Witness ==
    \E w \in Workers :
       /\ ctx[w].pc = "failed"
       /\ ctx[w].to_delete # {}

\* C8: every record built or stored carries co_alert iff co_ppm is above the
\* CO mark, butane_alert iff butane_ppm is above the butane mark,
\* temperature_alert and humidity_alert iff the value is outside its closed
\* interval, and alert iff one of the four.
AlertsMatch(r) ==
    /\ r.co_alert <=> (r.co_ppm > CO_THRESHOLD)
    /\ r.butane_alert <=> (r.butane_ppm > BUTANE_THRESHOLD)
    /\ r.temperature_alert <=> (r.temperature < TEMP_MIN \/ r.temperature > TEMP_MAX)
    /\ r.humidity_alert <=> (r.humidity < HUMIDITY_MIN \/ r.humidity > HUMIDITY_MAX)
    /\ r.alert <=> (r.co_alert \/ r.butane_alert \/ r.temperature_alert \/ r.humidity_alert)

C8_AlertVector ==
    /\ \A r \in db : AlertsMatch(r)
    /\ \A w \in Workers : ctx[w].pc # "idle" => AlertsMatch(ctx[w].record)

C8_Witness ==
    \E r \in db :
       /\ r.co_ppm = CO_THRESHOLD /\ r.butane_ppm = BUTANE_THRESHOLD
       /\ r.temperature = TEMP_MAX /\ r.humidity = HUMIDITY_MIN
       /\ ~r.alert

\* C9: latest() answers "No data yet" exactly when the table is empty.
C9_NoDataIffEmpty ==
    [][ \A w \in Workers :
          Latest(w) => /\ resp' # NoResponse
                       /\ (resp' = NoDataYet) <=> (db = {}) ]_vars

C9_Witness == resp = NoDataYet /\ db = {} /\ history = <<>>

\* C10: a step changes the rows of a device only if it is a step of a
\* receive_data call for that device.
C10_OtherDevicesUntouched ==
    [][ \A d \in Devices :
          RowsOf(db', d) # RowsOf(db, d) =>
             \E w \in Workers :
                /\ ctx[w].pc \notin Resting
                /\ ctx'[w] # ctx[w]
                /\ ctx[w].record.device_id = d ]_vars

C10_Witness ==
    \E d \in Devices : \E o \in Devices :
       /\ o # d
       /\ \E e \in evicted : e.by = d
       /\ RowsOf(db, o) # {}

====
